---- MODULE Spec2Model ----
\* Direct-to-S3 upload job of the dm package (src/unnamed/part_000) and its
\* caller OssAPI.UploadObject (src/md/xAdsHeaders.go), as a state machine.
\*
\* One behaviour is one call of UploadObject: newUploadJob, then uploadFile,
\* whose loops and retry.Do calls are unrolled into one action per step.  The
\* remote side (token service, signed-URL endpoint, S3, finalize endpoint) and
\* the file system are the environment: each action draws their answer with \E.
\*
\* Files are "sequential-byte" files: the byte at offset k has value k, so a
\* payload is described by the offset of its first byte and its length.
EXTENDS Integers, Sequences, FiniteSets, TLC

\* ---------------------------------------------------------------- constants

\* The byte unit of the model.  The source has megaByte = 1 << 20; file sizes
\* of 30 parts of 100 MiB do not fit TLC's integers, so sizes are counted in
\* MiB.  Every formula below is stated relative to defaultSize.
megaByte == 1

\* part_000:60   defaultSize = int64(100 * megaByte)
defaultSize == 100 * megaByte

\* part_000:50   maxParts = 25
maxParts == 25

\* part_000:55   minutesExpiration = 60
minutesExpiration == 60

\* One attempt more for a signed-URL request.
urlAttemptsMut == 3 + 1

\* The attempt counts handed to retry.Do at part_000:106, :136 and :148.
urlAttempts == 3

\* One attempt more for a chunk.
chunkAttemptsMut == 3 + 1

chunkAttempts == 3

\* One attempt more for finalize.
completeAttemptsMut == 3 + 1

completeAttempts == 3

\* ---------------------------------------------------------------- inputs

\* Part counts of the files tried: the one-part file (also the empty file),
\* the three-part file, 20 and 30 parts (the cases of getParts' comment) and
\* the multiples of maxParts and their neighbours.
PartCounts == {1, 2, 3, 20, 25, 26, 30, 50}

\* Length of the last chunk: empty (the size is a multiple of defaultSize),
\* one byte, one byte short of a full chunk.
Residues == {0, 1, defaultSize - 1}

FileSizes == {(p - 1) * defaultSize + r : p \in PartCounts, r \in Residues}

\* uploadKey values a signed-URL response can hold ("" when the field is absent).
Tokens == {"", "k1", "k2"}

\* How an attempt of a control-plane call fails: GetToken fails, the transport
\* fails or the status is not 200, the body does not decode.
FailKinds == {"auth", "remote", "decode"}

Min(a, b) == IF a < b THEN a ELSE b

\* ---------------------------------------------------------------- errors
\* An error is the sequence of its wrapping contexts; nil is the empty one.
Nil == <<>>

\* fmt.Errorf("...%w", err)
Wrap(stage, e) == <<stage>> \o e

\* retry.Do(attempts, interval, fn, args...) of github.com/thedevsaddam/retry,
\* which is not part of src/: fn is called with the same args until it returns
\* a nil error, at most `attempts` times; after the last failed attempt retry.Do
\* returns nil results and that attempt's error.  `left` counts the attempts
\* not yet made, the failing one included.
LastAttempt(left) == left = 1

\* The zero UploadResult (identifier, size).
EmptyResult == [objectId |-> "", size |-> 0]

VARIABLES
    diskSize,          \* size of fileToUpload on disk
    strictUrls,        \* the signed-URL endpoint returns exactly `parts` URLs
    pc,                \* position in UploadObject / uploadFile
    fileSize,          \* job.fileSize
    totalParts,        \* job.totalParts
    numberOfBatches,   \* job.numberOfBatches
    uploadKey,         \* job.uploadKey
    i,                 \* batch index of uploadFile's outer loop
    partsCounter,      \* partsCounter
    firstPart,         \* firstPart
    parts,             \* parts
    nUrls,             \* len(uploadUrls.Urls)
    u,                 \* URLs of the batch already consumed by the range loop
    offset,            \* the cursor of `file`
    bytesRead,         \* bytesRead
    bufOff,            \* bytes of `buffer` already consumed: buffer.Len() = bytesRead - bufOff
    attempt,           \* attempts the running retry.Do has left
    lastErr,           \* lastErr of the running retry.Do
    result,            \* result parameter `result` of uploadFile / UploadObject
    err,               \* result parameter `err`
    errBatch,          \* the `err` declared at part_000:106 (scope: outer loop body)
    errChunk,          \* the `err` declared at part_000:124 (scope: range loop body)
    req,               \* the last HTTP request sent
    key0,              \* uploadKey of the successful batch-0 response
    respKey,           \* uploadKey of the last successful signed-URL response
    okSign,            \* invocations of getSignedUploadUrls that returned no error
    okPut,             \* invocations of uploadChunk that returned no error
    okPost,            \* invocations of completeUpload that returned no error
    puts,              \* PUT requests sent so far to the URL taken last from the batch
    lastOkUrl,         \* the URL of the last PUT that was answered with 200
    failed,            \* some invocation has returned an error: while this is FALSE
                       \* the three counts above count every invocation made
    delivered,         \* every accepted payload was the whole chunk read for its part
    authRetried,       \* an operation was invoked again after GetToken had failed in it
    urlsGot,           \* URLs returned so far by the successful signed-URL responses
    dpc,               \* position in DownloadObject
    declared,          \* s.Size: the size declared by the signed-download response
    dStatus,           \* status code of the response of the signed download URL, 0: none
    readOk,            \* io.ReadAll returned the body without an error
    received,          \* len(result): bytes of the body DownloadObject hands back
    dErr               \* result parameter `err` of DownloadObject

uploadVars == <<diskSize, strictUrls, pc, fileSize, totalParts, numberOfBatches, uploadKey,
                i, partsCounter, firstPart, parts, nUrls, u, offset, bytesRead, bufOff,
                attempt, lastErr, result, err, errBatch, errChunk, req, key0, respKey,
                okSign, okPut, okPost, puts, lastOkUrl, failed, delivered,
                      authRetried, urlsGot>>

dlVars == <<dpc, declared, dStatus, readOk, received, dErr>>

vars == <<uploadVars, dlVars>>

jobVars == <<fileSize, totalParts, numberOfBatches>>
loopVars == <<i, partsCounter, firstPart, parts>>
ghostCount == <<okSign, okPut, okPost>>
putGhost == <<puts, lastOkUrl>>
moreGhost == <<authRetried, urlsGot>>

NoKey == "<none>"
NoReq == [op |-> "none"]
NoUrl == <<>>

\* ---------------------------------------------------------------- newUploadJob

\* part_000:84   job.totalParts = int((job.fileSize / defaultSize) + 1)
TotalParts(size) == (size \div defaultSize) + 1

\* part_000:85   job.numberOfBatches = (job.totalParts / maxParts) + 1
NumberOfBatchesMut(total) == total \div maxParts
NumberOfBatches(total) == (total \div maxParts) + 1

\* The job's fields and uploadFile's locals before UploadObject is called.
JobNotStarted ==
    /\ pc = "newUploadJob"
    /\ fileSize = 0 /\ totalParts = 0 /\ numberOfBatches = 0
    /\ uploadKey = ""
    /\ i = 0 /\ partsCounter = 0 /\ firstPart = 0 /\ parts = 0
    /\ nUrls = 0 /\ u = 0 /\ offset = 0 /\ bytesRead = 0 /\ bufOff = 0
    /\ attempt = 0 /\ lastErr = Nil
    /\ result = EmptyResult /\ err = Nil /\ errBatch = Nil /\ errChunk = Nil
    /\ req = NoReq /\ key0 = NoKey /\ respKey = NoKey
    /\ okSign = 0 /\ okPut = 0 /\ okPost = 0
    /\ puts = 0 /\ lastOkUrl = NoUrl
    /\ failed = FALSE /\ delivered = TRUE
    /\ authRetried = FALSE /\ urlsGot = 0

\* No DownloadObject call is running.
NoDownload ==
    /\ dpc = "idle"
    /\ declared = 0 /\ dStatus = 0 /\ readOk = FALSE /\ received = 0
    /\ dErr = Nil

\* UploadObject is about to be called for a file on disk; the signed-URL
\* endpoint answers as documented, with as many URLs as parts were asked for.
Init ==
    /\ diskSize \in FileSizes
    /\ strictUrls = TRUE
    /\ JobNotStarted
    /\ NoDownload

\* UploadObject, xAdsHeaders.go:89-92 with newUploadJob, part_000:63-88: os.Stat
\* succeeds and the job's counts are computed.
NewUploadJob ==
    /\ pc = "newUploadJob"
    /\ fileSize' = diskSize
    /\ totalParts' = TotalParts(diskSize)
    /\ numberOfBatches' = NumberOfBatches(TotalParts(diskSize))
    /\ uploadKey' = ""
    /\ pc' = "open"
    /\ UNCHANGED <<dlVars, moreGhost, putGhost, diskSize, strictUrls, loopVars, nUrls, u, offset, bytesRead, bufOff,
                   attempt, lastErr, result, err, errBatch, errChunk, req, key0, respKey,
                   ghostCount, failed, delivered>>

\* os.Stat fails: newUploadJob returns the error and UploadObject returns it
\* with the zero result (xAdsHeaders.go:90-92).
NewUploadJobFails ==
    /\ pc = "newUploadJob"
    /\ err' = <<"stat">>
    /\ failed' = TRUE
    /\ pc' = "done"
    /\ UNCHANGED <<dlVars, moreGhost, putGhost, diskSize, strictUrls, jobVars, uploadKey, loopVars, nUrls, u, offset,
                   bytesRead, bufOff, attempt, lastErr, result, errBatch, errChunk, req,
                   key0, respKey, ghostCount, delivered>>

\* ---------------------------------------------------------------- uploadFile

\* part_000:92-95: os.Open fails; err is the result parameter here (the short
\* declaration is in the function's own block), so the error is returned.
OpenFails ==
    /\ pc = "open"
    /\ err' = <<"open">>
    /\ failed' = TRUE
    /\ pc' = "done"
    /\ UNCHANGED <<dlVars, moreGhost, putGhost, diskSize, strictUrls, jobVars, uploadKey, loopVars, nUrls, u, offset,
                   bytesRead, bufOff, attempt, lastErr, result, errBatch, errChunk, req,
                   key0, respKey, ghostCount, delivered>>

\* part_000:92-98: the file is open, its cursor at 0; partsCounter := 0, i := 0.
OpenFile ==
    /\ pc = "open"
    /\ err' = Nil
    /\ offset' = 0
    /\ partsCounter' = 0
    /\ i' = 0
    /\ pc' = "batch"
    /\ UNCHANGED <<dlVars, moreGhost, putGhost, diskSize, strictUrls, jobVars, uploadKey, firstPart, parts, nUrls, u,
                   bytesRead, bufOff, attempt, lastErr, result, errBatch, errChunk, req,
                   key0, respKey, ghostCount, failed, delivered>>

\* part_000:101   firstPart := (i * maxParts) + 1
FirstPart(b) == (b * maxParts) + 1

\* getParts without its last-batch case.
getPartsMut(counter) == maxParts

\* part_000:159-172   getParts
getParts(counter) ==
    IF totalParts < (counter + maxParts) THEN totalParts - counter ELSE maxParts

\* part_000:99-106: the loop condition holds; firstPart and parts are computed
\* and retry.Do starts with its 3 attempts.
BeginBatch ==
    /\ pc = "batch"
    /\ i < numberOfBatches
    /\ firstPart' = FirstPart(i)
    /\ parts' = getParts(partsCounter)
    /\ attempt' = urlAttempts
    /\ lastErr' = Nil
    /\ pc' = "sign"
    /\ UNCHANGED <<dlVars, moreGhost, putGhost, diskSize, strictUrls, jobVars, uploadKey, i, partsCounter, nUrls, u,
                   offset, bytesRead, bufOff, result, err, errBatch, errChunk, req, key0,
                   respKey, ghostCount, failed, delivered>>

\* part_000:99, 147-148: the loop condition fails; retry.Do of completeUpload starts.
EndBatches ==
    /\ pc = "batch"
    /\ ~(i < numberOfBatches)
    /\ attempt' = completeAttempts
    /\ lastErr' = Nil
    /\ pc' = "complete"
    /\ UNCHANGED <<dlVars, moreGhost, putGhost, diskSize, strictUrls, jobVars, uploadKey, loopVars, nUrls, u, offset,
                   bytesRead, bufOff, result, err, errBatch, errChunk, req, key0, respKey,
                   ghostCount, failed, delivered>>

\* part_000:195-204: the query of the signed-URL request; uploadKey is added
\* only when job.uploadKey is not empty.
\* uploadKey is added whatever its value.
SignQueryMut(fp, p) ==
    [uploadKey |-> uploadKey, firstPart |-> fp, parts |-> p,
     minutesExpiration |-> minutesExpiration]
SignQuery(fp, p) ==
    IF uploadKey # ""
    THEN [uploadKey |-> uploadKey, firstPart |-> fp, parts |-> p,
          minutesExpiration |-> minutesExpiration]
    ELSE [firstPart |-> fp, parts |-> p, minutesExpiration |-> minutesExpiration]

\* url.Values.Get: the value of a parameter, "" when it is absent.
QueryGet(q, name) == IF name \in DOMAIN q THEN q[name] ELSE ""

SignRequest == [op |-> "GET", batch |-> i, query |-> SignQuery(firstPart, parts)]

\* The token of every response is kept, not only that of batch 0.
CaptureKeyMut(b) == TRUE

\* part_000:113   if i == 0
CaptureKey(b) == b = 0

\* Number of URLs a 200 response of the signed-URL endpoint holds.
UrlCounts(p) ==
    IF strictUrls THEN {p}
    ELSE {n \in {p - 1, p, p + 1} : n >= 0}

\* part_000:106-110 with getSignedUploadUrls (175-222): one attempt fails.  When
\* GetToken fails no request is sent.  After the last attempt retry.Do returns
\* lastErr: line 106 declares a NEW err in the loop body's block (tmpResult and
\* err are both new there), line 108 assigns that variable, and the bare return
\* of line 109 returns the result parameters result and err, which line 92 left
\* at nil.
SignFails ==
    /\ pc = "sign"
    /\ attempt > 0
    /\ \E kind \in FailKinds :
          /\ lastErr' = <<kind>>
          /\ req' = IF kind = "auth" THEN req ELSE SignRequest
          /\ IF LastAttempt(attempt)
                THEN /\ errBatch' = Wrap("Error getting signed URLs", <<kind>>)
                     /\ pc' = "done"
                ELSE /\ errBatch' = errBatch
                     /\ pc' = "sign"
    /\ attempt' = attempt - 1
    /\ failed' = TRUE
    /\ authRetried' = (authRetried \/ lastErr = <<"auth">>)
    /\ UNCHANGED <<dlVars, urlsGot, putGhost, diskSize, strictUrls, jobVars, uploadKey, loopVars, nUrls, u, offset,
                   bytesRead, bufOff, result, err, errChunk, key0, respKey, ghostCount,
                   delivered>>

\* part_000:106-119: an attempt succeeds; the response holds a token and the
\* URLs.  The token is kept only when i == 0.
SignOk ==
    /\ pc = "sign"
    /\ attempt > 0
    /\ \E k \in Tokens, n \in UrlCounts(parts) :
          /\ uploadKey' = IF CaptureKey(i) THEN k ELSE uploadKey
          /\ key0' = IF i = 0 THEN k ELSE key0
          /\ respKey' = k
          /\ nUrls' = n
    /\ req' = SignRequest
    /\ errBatch' = Nil
    /\ u' = 0
    /\ okSign' = okSign + 1
    /\ attempt' = 0
    /\ lastErr' = Nil
    /\ pc' = "range"
    /\ authRetried' = (authRetried \/ lastErr = <<"auth">>)
    /\ urlsGot' = urlsGot + nUrls'
    /\ UNCHANGED <<dlVars, putGhost, diskSize, strictUrls, jobVars, loopVars, offset, bytesRead, bufOff,
                   result, err, errChunk, okPut, okPost, failed, delivered>>

\* part_000:122-124   file.Read on a slice of defaultSize bytes: what is left of
\* the file, at most defaultSize; 0 bytes (and io.EOF) at the end of the file.
ReadLen == Min(defaultSize, diskSize - offset)

\* part_000:134: `if bytesRead > 0`, the guard of the chunk transfer.
HasBytesMut(n) == n >= 0
HasBytes(n) == n > 0

\* part_000:119-136: the next URL of the batch is taken and a chunk is read.
\* With bytes read the chunk's retry.Do starts on a fresh buffer; at the end
\* of the file (0 bytes, io.EOF) the URL is skipped.
ReadChunk ==
    /\ pc = "range"
    /\ u < nUrls
    /\ bytesRead' = ReadLen
    /\ offset' = offset + ReadLen
    /\ errChunk' = IF ReadLen = 0 THEN <<"EOF">> ELSE Nil
    /\ bufOff' = 0
    /\ IF HasBytes(ReadLen)
          THEN /\ attempt' = chunkAttempts
               /\ lastErr' = Nil
               /\ u' = u
               /\ pc' = "put"
          ELSE /\ UNCHANGED <<attempt, lastErr>>
               /\ u' = u + 1
               /\ pc' = "range"
    /\ puts' = 0
    /\ UNCHANGED <<dlVars, moreGhost, diskSize, strictUrls, jobVars, uploadKey, loopVars, nUrls,
                   result, err, errBatch, req, key0, respKey, ghostCount, lastOkUrl,
                   failed, delivered>>

\* part_000:124-129: file.Read fails with an error that is not io.EOF.  The
\* err assigned at line 127 is the one declared at line 124; the bare return
\* returns the result parameters.
ReadFails ==
    /\ pc = "range"
    /\ u < nUrls
    /\ bytesRead' = 0
    /\ errChunk' = Wrap("Error reading the file to upload", <<"read">>)
    /\ failed' = TRUE
    /\ pc' = "done"
    /\ UNCHANGED <<dlVars, moreGhost, putGhost, diskSize, strictUrls, jobVars, uploadKey, loopVars, nUrls, u, offset,
                   bufOff, attempt, lastErr, result, err, errBatch, req, key0, respKey,
                   ghostCount, delivered>>

\* part_000:119, 144: the URLs of the batch are used up.
EndBatch ==
    /\ pc = "range"
    /\ ~(u < nUrls)
    /\ partsCounter' = partsCounter + maxParts
    /\ i' = i + 1
    /\ pc' = "batch"
    /\ UNCHANGED <<dlVars, moreGhost, putGhost, diskSize, strictUrls, jobVars, uploadKey, firstPart, parts, nUrls, u,
                   offset, bytesRead, bufOff, attempt, lastErr, result, err, errBatch,
                   errChunk, req, key0, respKey, ghostCount, failed, delivered>>

\* ---------------------------------------------------------------- uploadChunk

\* part_000:232   l := buffer.Len(): the bytes of the buffer not yet consumed.
BufferLen == bytesRead - bufOff

\* part_000:227-235: the PUT request.  Its body is the buffer itself, so it
\* holds what the buffer still holds; Content-Length is buffer.Len().
\* url: the (u+1)-th URL of the response of batch i, which the endpoint issued
\* for part firstPart + u; slice: bytesSlice[:bytesRead], the bytes read for it.
ChunkRequest ==
    [op |-> "PUT", url |-> <<i, u + 1>>, part |-> firstPart + u,
     slice |-> [from |-> offset - bytesRead, len |-> bytesRead],
     body |-> [from |-> (offset - bytesRead) + bufOff, len |-> BufferLen],
     contentLength |-> BufferLen]

\* What sending the request consumes of the buffer when the attempt fails:
\* nothing (no connection), a part of it (the connection breaks), all of it
\* (the server read the body and answered with an error status).
Drains(remaining) == {0, remaining \div 2, remaining}

\* part_000:136-140 with uploadChunk (225-252): one attempt fails.  retry.Do
\* calls uploadChunk again with the same url and the same *bytes.Buffer.  The
\* err assigned at lines 136 and 138 is the one declared at line 124.
ChunkFails ==
    /\ pc = "put"
    /\ attempt > 0
    /\ req' = ChunkRequest
    /\ \E d \in Drains(BufferLen) : bufOff' = bufOff + d
    /\ lastErr' = <<"remote">>
    /\ attempt' = attempt - 1
    /\ IF LastAttempt(attempt)
          THEN /\ errChunk' = Wrap("Error uploading a chunk to URL", <<"remote">>)
               /\ pc' = "done"
          ELSE /\ errChunk' = Nil
               /\ pc' = "put"
    /\ puts' = puts + 1
    /\ failed' = TRUE
    /\ UNCHANGED <<dlVars, moreGhost, diskSize, strictUrls, jobVars, uploadKey, loopVars, nUrls, u, offset,
                   bytesRead, result, err, errBatch, key0, respKey, ghostCount,
                   lastOkUrl, delivered>>

\* part_000:136-142: an attempt succeeds (status 200): the whole body was sent.
ChunkOk ==
    /\ pc = "put"
    /\ attempt > 0
    /\ req' = ChunkRequest
    /\ delivered' = (delivered /\ BufferLen = bytesRead)
    /\ bufOff' = bytesRead
    /\ errChunk' = Nil
    /\ okPut' = okPut + 1
    /\ attempt' = 0
    /\ lastErr' = Nil
    /\ u' = u + 1
    /\ pc' = "range"
    /\ puts' = puts + 1
    /\ lastOkUrl' = ChunkRequest.url
    /\ UNCHANGED <<dlVars, moreGhost, diskSize, strictUrls, jobVars, uploadKey, loopVars, nUrls, offset,
                   bytesRead, result, err, errBatch, key0, respKey, okSign, okPost,
                   failed>>

\* ---------------------------------------------------------------- completeUpload

\* The declared size rounded up to whole chunks.
CompleteBodyMut == [uploadKey |-> uploadKey, size |-> totalParts * defaultSize]

\* part_000:271-277   bodyData
CompleteBody == [uploadKey |-> uploadKey, size |-> fileSize]

CompleteRequest == [op |-> "POST", body |-> CompleteBody]

\* Sizes the finalize response can report for the object.
ReportedSizes == {fileSize, 0}

\* Line 153 moved above the error check of line 149, on a partly decoded response.
ResultAfterErrorMut == [objectId |-> "urn", size |-> fileSize]

\* part_000:149-152: the result uploadFile returns when retry.Do returned an
\* error: line 153 is not reached, result is the zero value it was declared as.
ResultAfterError == result

\* part_000:148-152 with completeUpload (257-309): one attempt fails.  Line 148
\* is in the function's own block, so its err is the result parameter and the
\* error of the last attempt is returned, wrapped.
CompleteFails ==
    /\ pc = "complete"
    /\ attempt > 0
    /\ \E kind \in FailKinds :
          /\ lastErr' = <<kind>>
          /\ req' = IF kind = "auth" THEN req ELSE CompleteRequest
          /\ IF LastAttempt(attempt)
                THEN /\ err' = Wrap("Error completing the upload", <<kind>>)
                     /\ result' = ResultAfterError
                     /\ pc' = "done"
                ELSE /\ err' = err
                     /\ result' = result
                     /\ pc' = "complete"
    /\ attempt' = attempt - 1
    /\ failed' = TRUE
    /\ authRetried' = (authRetried \/ lastErr = <<"auth">>)
    /\ UNCHANGED <<dlVars, urlsGot, putGhost, diskSize, strictUrls, jobVars, uploadKey, loopVars, nUrls, u, offset,
                   bytesRead, bufOff, errBatch, errChunk, key0, respKey,
                   ghostCount, delivered>>

\* part_000:300-308, 153: what uploadFile returns for a 200 response that
\* reports `size`: the decoded response, whatever size it reports.
CompleteResult(size) == [objectId |-> "urn", size |-> size]

\* part_000:148-155: an attempt succeeds; the decoded response is the result.
CompleteOk ==
    /\ pc = "complete"
    /\ attempt > 0
    /\ req' = CompleteRequest
    /\ \E size \in ReportedSizes : result' = CompleteResult(size)
    /\ err' = Nil
    /\ okPost' = okPost + 1
    /\ attempt' = 0
    /\ lastErr' = Nil
    /\ pc' = "done"
    /\ authRetried' = (authRetried \/ lastErr = <<"auth">>)
    /\ UNCHANGED <<dlVars, urlsGot, putGhost, diskSize, strictUrls, jobVars, uploadKey, loopVars, nUrls, u, offset,
                   bytesRead, bufOff, errBatch, errChunk, key0, respKey, okSign, okPut,
                   failed, delivered>>

Next ==
    \/ NewUploadJob
    \/ NewUploadJobFails
    \/ OpenFile
    \/ OpenFails
    \/ BeginBatch
    \/ EndBatches
    \/ SignOk
    \/ SignFails
    \/ ReadChunk
    \/ ReadFails
    \/ EndBatch
    \/ ChunkOk
    \/ ChunkFails
    \/ CompleteOk
    \/ CompleteFails

Spec == Init /\ [][Next]_vars

\* UploadObject against a signed-URL endpoint whose 200 response may hold
\* fewer or more URLs than the parts asked for.
InitAnyUrls ==
    /\ diskSize \in FileSizes
    /\ strictUrls = FALSE
    /\ JobNotStarted
    /\ NoDownload

SpecAnyUrls == InitAnyUrls /\ [][Next]_vars

\* UploadObject runs in one goroutine and every call it makes returns: a step
\* that can be taken is taken.
FairSpec == Spec /\ WF_vars(Next)

\* ---------------------------------------------------------------- DownloadObject

\* Largest object size, declared or received, of a download.
MaxObjectSize == 7

ObjectSizes == 0..MaxObjectSize

\* xAdsHeaders.go:206-209: the error left by the comparison of len(result)
\* with s.Size.
SizeCheckMut(expected, got) ==
    IF got < expected THEN <<"the file size doesn't match">> ELSE Nil
SizeCheck(expected, got) ==
    IF got # expected THEN <<"the file size doesn't match">> ELSE Nil

\* xAdsHeaders.go:70-73: GetToken("data:read") fails, DownloadObject returns.
DownloadTokenFails ==
    /\ dpc = "DownloadObject"
    /\ dErr' = <<"auth">>
    /\ dpc' = "done"
    /\ UNCHANGED <<uploadVars, declared, dStatus, readOk, received>>

\* xAdsHeaders.go:70-75: the token is there, getSignedDownloadUrl is called.
DownloadTokenOk ==
    /\ dpc = "DownloadObject"
    /\ dpc' = "getSignedDownloadUrl"
    /\ UNCHANGED <<uploadVars, declared, dStatus, readOk, received, dErr>>

\* xAdsHeaders.go:156-179, 75-78: the signed-download request fails in the
\* transport, by its status or in the decoding of its body.
SignedDownloadUrlFails ==
    /\ dpc = "getSignedDownloadUrl"
    /\ \E kind \in {"transport", "status", "decode"} : dErr' = <<kind>>
    /\ dpc' = "done"
    /\ UNCHANGED <<uploadVars, declared, dStatus, readOk, received>>

\* xAdsHeaders.go:171-172, 80: status 200, the body decodes to a
\* signedDownloadUrl that declares `size`.
SignedDownloadUrlOk ==
    /\ dpc = "getSignedDownloadUrl"
    /\ \E size \in ObjectSizes : declared' = size
    /\ dpc' = "downloadObjectUsingSignedUrl"
    /\ UNCHANGED <<uploadVars, dStatus, readOk, received, dErr>>

\* xAdsHeaders.go:183-192: the GET of the signed URL gets no response.
DownloadRequestFails ==
    /\ dpc = "downloadObjectUsingSignedUrl"
    /\ dErr' = <<"transport">>
    /\ dpc' = "done"
    /\ UNCHANGED <<uploadVars, declared, dStatus, readOk, received>>

\* xAdsHeaders.go:195-199: a response with a status other than 200.
DownloadStatusNotOk ==
    /\ dpc = "downloadObjectUsingSignedUrl"
    /\ \E status \in {403, 404, 500} : dStatus' = status
    /\ dErr' = <<"status">>
    /\ dpc' = "done"
    /\ UNCHANGED <<uploadVars, declared, readOk, received>>

\* xAdsHeaders.go:195: a response with status 200.
DownloadStatusOk ==
    /\ dpc = "downloadObjectUsingSignedUrl"
    /\ dStatus' = 200
    /\ dpc' = "ReadAll"
    /\ UNCHANGED <<uploadVars, declared, readOk, received, dErr>>

\* xAdsHeaders.go:201-204: io.ReadAll fails after n bytes; the bytes read so
\* far and the error are returned, the sizes are not compared.
ReadAllFails ==
    /\ dpc = "ReadAll"
    /\ \E n \in ObjectSizes : received' = n
    /\ readOk' = FALSE
    /\ dErr' = <<"read">>
    /\ dpc' = "done"
    /\ UNCHANGED <<uploadVars, declared, dStatus>>

\* xAdsHeaders.go:201-211: io.ReadAll returns the n bytes of the body, and
\* their number is compared with the declared size.
ReadAllOk ==
    /\ dpc = "ReadAll"
    /\ \E n \in ObjectSizes :
          /\ received' = n
          /\ dErr' = SizeCheck(declared, n)
    /\ readOk' = TRUE
    /\ dpc' = "done"
    /\ UNCHANGED <<uploadVars, declared, dStatus>>

NextDownload ==
    \/ DownloadTokenFails
    \/ DownloadTokenOk
    \/ SignedDownloadUrlFails
    \/ SignedDownloadUrlOk
    \/ DownloadRequestFails
    \/ DownloadStatusNotOk
    \/ DownloadStatusOk
    \/ ReadAllFails
    \/ ReadAllOk

\* DownloadObject is about to be called; no upload is running.
InitDownload ==
    /\ diskSize = 0
    /\ strictUrls = TRUE
    /\ JobNotStarted
    /\ dpc = "DownloadObject"
    /\ declared = 0 /\ dStatus = 0 /\ readOk = FALSE /\ received = 0
    /\ dErr = Nil

SpecDownload == InitDownload /\ [][NextDownload]_vars

\* ---------------------------------------------------------------- properties

\* os.Stat succeeded: the job exists and its fields are set.
JobCreated == pc # "newUploadJob" /\ err # <<"stat">>

\* C1: every signed-URL request of a batch with index >= 1 and every finalize
\* request carries the token that the successful response of batch 0 returned,
\* whatever tokens the later responses hold.
SessionTokenFixed ==
    /\ (req.op = "GET" /\ req.batch >= 1) => QueryGet(req.query, "uploadKey") = key0
    /\ req.op = "POST" => req.body.uploadKey = key0
    /\ key0 # NoKey => uploadKey = key0

\* A finalize request of a job of two batches or more, sent after a later
\* batch's response returned another token than batch 0's.
SessionTokenFixedWitness ==
    /\ req.op = "POST"
    /\ i >= 2
    /\ key0 = "k1"
    /\ respKey = "k2"

\* C2: totalParts = floor(fileSize / chunkSize) + 1, numberOfBatches =
\* floor(totalParts / 25) + 1, and the signed-URL request of batch b asks for
\* firstPart = 25*b + 1 and min(25, totalParts - 25*b) parts; 20 parts are one
\* batch of 20 from part 1, 30 parts are two batches: 25 from 1, 5 from 26.
PartitionAndBatches ==
    JobCreated =>
        /\ totalParts = (fileSize \div defaultSize) + 1
        /\ numberOfBatches = (totalParts \div 25) + 1
        /\ req.op = "GET" =>
              /\ req.query.firstPart = 25 * req.batch + 1
              /\ req.query.parts = Min(25, totalParts - 25 * req.batch)
        /\ totalParts = 20 =>
              /\ numberOfBatches = 1
              /\ req.op = "GET" => req.query.firstPart = 1 /\ req.query.parts = 20
        /\ totalParts = 30 =>
              /\ numberOfBatches = 2
              /\ (req.op = "GET" /\ req.batch = 0) =>
                    req.query.firstPart = 1 /\ req.query.parts = 25
              /\ (req.op = "GET" /\ req.batch = 1) =>
                    req.query.firstPart = 26 /\ req.query.parts = 5

\* The second signed-URL request of a file of 30 parts has been sent.
PartitionAndBatchesWitness ==
    /\ totalParts = 30
    /\ req.op = "GET"
    /\ req.batch = 1

\* A file of 2 full chunks and a partial third one.
ThreePartFile == 2 * defaultSize < fileSize /\ fileSize < 3 * defaultSize

\* C3: a 3-part file uploaded with no operation failing: 1 signed-URL request,
\* then 3 chunk transfers, then 1 finalize call, whose declared size is the
\* file size.
ThreePartScenario ==
    (ThreePartFile /\ ~failed) =>
        /\ okSign <= 1 /\ okPut <= 3 /\ okPost <= 1
        /\ okPut > 0 => okSign = 1
        /\ req.op = "PUT" => okPost = 0
        /\ okPost > 0 => okPut = 3
        /\ req.op = "POST" => req.body.size = fileSize /\ okPut = 3
        /\ pc = "done" =>
              /\ okSign = 1 /\ okPut = 3 /\ okPost = 1
              /\ req.op = "POST"

\* The 3-part file has been uploaded without a failure.
ThreePartScenarioWitness ==
    /\ ThreePartFile
    /\ ~failed
    /\ pc = "done"
    /\ result # EmptyResult

\* C7: uploadFile returns a non-nil error only with the empty result, and a
\* non-empty result only with a nil error, after a successful finalize response.
FailsAtomically ==
    pc = "done" =>
        /\ err # Nil => result = EmptyResult
        /\ result # EmptyResult => (err = Nil /\ okPost = 1 /\ req.op = "POST")

\* The finalize call has failed on all its attempts and uploadFile has returned.
FailsAtomicallyWitness ==
    /\ pc = "done"
    /\ Len(err) > 0
    /\ err[1] = "Error completing the upload"
    /\ req.op = "POST"

\* The bytes of the file that belong to part number p.
PartBytes(p) ==
    [from |-> (p - 1) * defaultSize,
     len |-> Min(defaultSize, fileSize - (p - 1) * defaultSize)]

\* C4: every transfer for part p carries the file bytes
\* [(p-1)*chunkSize, min(p*chunkSize, fileSize)), and the part about to be
\* transferred is never below the part transferred last.
PartsCarryFileBytesInOrder ==
    /\ req.op = "PUT" => (req.body = PartBytes(req.part) /\ req.body.len > 0)
    /\ (req.op = "PUT" /\ pc = "put") => req.part <= firstPart + u

\* C4 for what is read instead of what is sent: the slice read for part p is
\* the file's bytes of part p, and the cursor stands right behind it.
PartsReadInFileOrder ==
    /\ req.op = "PUT" => (req.slice = PartBytes(req.part) /\ req.slice.len > 0)
    /\ (req.op = "PUT" /\ pc = "put") => req.part <= firstPart + u
    /\ pc = "put" => offset = (firstPart + u - 1) * defaultSize + bytesRead

\* The end of the running retry.Do: it has returned lastErr after its last attempt.
Exhausted == pc = "done" /\ lastErr # Nil

\* C5: an operation is invoked at most 3 times, and when its 3 attempts have
\* all failed uploadFile returns the last error.
RetryBoundSurfacesLastError ==
    /\ attempt >= 0 /\ attempt <= 3 /\ puts <= 3
    /\ Exhausted =>
          /\ attempt = 0
          /\ err # Nil
          /\ SubSeq(err, 2, Len(err)) = lastErr

\* C6: when the finalize response reports another size than the request
\* declared, uploadFile fails: it returns an error and no result.
SizeMismatchFails ==
    (pc = "done" /\ okPost = 1 /\ result.size # req.body.size) =>
        (err # Nil /\ result = EmptyResult)

\* C8 as stated: a signed URL receives at most one PUT request.
UrlUsedAtMostOnce == puts <= 1

\* C8, amended: a signed URL receives at most 3 PUT requests, the attempts of
\* one retry.Do, and none after a PUT to it that succeeded.
UrlUsedByOneRetryOnly ==
    /\ puts <= 3
    /\ pc = "put" => <<i, u + 1>> # lastOkUrl
    /\ (puts > 0 /\ pc = "put") => (req.op = "PUT" /\ req.url = <<i, u + 1>>)

\* The third PUT to one URL has succeeded after two that failed.
UrlUsedByOneRetryOnlyWitness ==
    /\ puts = 3
    /\ req.op = "PUT"
    /\ lastOkUrl = req.url

\* C9: every invocation of uploadChunk for a part sends the slice read for the
\* part as its body, with Content-Length the number of bytes read.
RetrySendsWholeSlice ==
    req.op = "PUT" =>
        /\ req.body = req.slice
        /\ req.contentLength = req.slice.len

\* A read of the file has failed with an error that is not io.EOF.
ReadFailed == Len(errChunk) > 0 /\ errChunk[Len(errChunk)] = "read"

\* C10: a read error that is not end-of-file ends the job at once and
\* uploadFile returns an error; end-of-file does not end the job: after it the
\* job ends only by the finalize response or by a retry.Do that gave up.
ReadErrorAborts ==
    /\ ReadFailed => (pc = "done" /\ err # Nil)
    /\ (errChunk = <<"EOF">> /\ pc = "done") => (okPost = 1 \/ Exhausted)

\* C10 without the returned error: after the read error nothing else happens.
ReadErrorEndsJob == ReadFailed => pc = "done"

\* The attempt made last by the running retry.Do failed in GetToken.
AuthFailed == lastErr = <<"auth">>

\* C11 as stated: a failure of GetToken ends the job after that one attempt;
\* neither GetToken nor the operation is called again.
AuthFailureIsFatal ==
    /\ ~authRetried
    /\ AuthFailed => pc = "done"

\* C11: a failure of GetToken is retried like every other failure: retry.Do
\* calls the operation, GetToken included, again until its third attempt has
\* failed, and only then does the job end.
AuthFailureRetried ==
    /\ AuthFailed =>
          /\ attempt \in 0..2
          /\ (pc = "done") <=> (attempt = 0)
          /\ pc \in {"sign", "complete", "done"}
    /\ authRetried => failed

\* GetToken failed in an attempt, the operation was called again, and the job
\* went on to end with a finalize response.
AuthFailureRetriedWitness ==
    /\ authRetried
    /\ okSign >= 1
    /\ okPost = 1
    /\ pc = "done"

\* The number of parts that hold bytes: ceil(size / defaultSize).
ChunksOf(size) == (size + defaultSize - 1) \div defaultSize

\* uploadFile has left the loop over the batches: the finalize call is running
\* or has run.
FinalizeStarted == pc = "complete" \/ req.op = "POST" \/ okPost > 0

\* Every batch has completed: each had its signed-URL response, every URL of
\* the last one was taken, every chunk read was transferred and the file was
\* read to its end; a finalize request declares the size measured at creation.
AllBatchesCompleted ==
    /\ pc \in {"complete", "done"}
    /\ i = numberOfBatches
    /\ okSign = numberOfBatches
    /\ u = nUrls
    /\ okPut = ChunksOf(fileSize)
    /\ offset = fileSize
    /\ errBatch = Nil
    /\ errChunk \in {Nil, <<"EOF">>}
    /\ req.op = "POST" => (req.body.size = fileSize /\ fileSize = diskSize)

\* From the finalize call on no signed-URL request and no chunk transfer is
\* made: the only request a step can issue is a finalize request.
NoTransferAfterFinalize ==
    FinalizeStarted =>
        /\ UNCHANGED <<okSign, okPut, puts, urlsGot, i, u, offset, bytesRead>>
        /\ req' \in {req, CompleteRequest}

\* C12: a finalize request is issued only after every batch has completed;
\* once the finalize call has begun there is no further signed-URL request or
\* chunk transfer, and every finalize attempt declares the file size measured
\* when the job was created.
FinalizeOnlyAfterAllBatches ==
    /\ [](FinalizeStarted => AllBatchesCompleted)
    /\ [][NoTransferAfterFinalize]_vars

\* A finalize request was sent for a job of several batches in which some
\* attempt had failed.
FinalizeOnlyAfterAllBatchesWitness ==
    /\ req.op = "POST"
    /\ numberOfBatches >= 2
    /\ okPut >= maxParts
    /\ failed

\* A chunk transfer has failed on all the attempts of its retry.Do.
ChunkExhausted ==
    Len(errChunk) > 0 /\ errChunk[1] = "Error uploading a chunk to URL"

HasUploadKeyParam == "uploadKey" \in DOMAIN req.query

\* C14 as stated: the uploadKey parameter is absent from every attempt of the
\* batch-0 signed-URL request and present on every signed-URL request of the
\* later batches.
UploadKeyParamOnLaterBatches ==
    req.op = "GET" =>
        /\ req.batch = 0 => ~HasUploadKeyParam
        /\ req.batch >= 1 => HasUploadKeyParam

\* C14: the uploadKey parameter is absent from every attempt of the batch-0
\* signed-URL request; on the requests of the later batches it is present
\* exactly when the batch-0 response returned a token that is not empty, and
\* then it carries that token.
UploadKeyParamWhenTokenSet ==
    req.op = "GET" =>
        /\ req.batch = 0 => ~HasUploadKeyParam
        /\ req.batch >= 1 =>
              /\ HasUploadKeyParam <=> key0 # ""
              /\ HasUploadKeyParam => req.query.uploadKey = key0

\* A retried signed-URL request of the second batch carries the token.
UploadKeyParamWhenTokenSetWitness ==
    /\ pc = "sign"
    /\ attempt = 1
    /\ req.op = "GET"
    /\ req.batch = 1
    /\ HasUploadKeyParam

\* The part ranges asked for, batch after batch, are [25 i + 1, 25 i + parts]:
\* full ranges up to the last batch, which ends at totalParts.
PartRangesCoverAllParts ==
    req.op = "GET" =>
        /\ req.query.firstPart = (req.batch * maxParts) + 1
        /\ req.batch < numberOfBatches - 1 => req.query.parts = maxParts
        /\ req.batch = numberOfBatches - 1 =>
              req.query.firstPart + req.query.parts - 1 = totalParts

\* C15: the signed-URL request of every batch asks for at least 1 and at most
\* 25 parts, and the ranges asked for cover exactly the parts 1..totalParts.
PartsPerRequestInRange ==
    /\ req.op = "GET" => req.query.parts \in 1..maxParts
    /\ PartRangesCoverAllParts

\* C16: whenever a finalize request is issued, the payloads the chunk endpoint
\* accepted add up to the declared size, each byte of the file accepted once:
\* the file was read to its end, every chunk read was accepted, and every
\* accepted payload was the whole chunk read for its part.
AcceptedBytesAreTheFile ==
    req.op = "POST" =>
        /\ req.body.size = fileSize
        /\ offset = fileSize
        /\ okPut = ChunksOf(fileSize)
        /\ delivered

\* C16 for the jobs in which no call failed: the file was read to its end and
\* every chunk of it was accepted.
WholeFileSentWhenNothingFailed ==
    (req.op = "POST" /\ ~failed) =>
        /\ offset = fileSize
        /\ okPut = ChunksOf(fileSize)
        /\ delivered

\* C17: in a run in which no call failed every chunk transfer carries at least
\* one byte and, when uploadFile returns, ceil(fileSize / defaultSize) chunk
\* transfers and one finalize call were made.  When fileSize is a multiple of
\* defaultSize the read for the last part asked for returned 0 bytes at the
\* end of the file and the URL of that part was left unused.
ChunkCountWithoutFailures ==
    ~failed =>
        /\ req.op = "PUT" => (req.body.len > 0 /\ req.contentLength > 0)
        /\ okPut <= ChunksOf(fileSize)
        /\ pc = "done" =>
              /\ okPut = ChunksOf(fileSize)
              /\ okPost = 1
              /\ urlsGot = totalParts
              /\ IF fileSize % defaultSize = 0
                    THEN /\ errChunk = <<"EOF">>
                         /\ bytesRead = 0
                         /\ okPut = totalParts - 1
                    ELSE /\ errChunk = Nil
                         /\ okPut = totalParts

\* A file of a whole number of chunks, more than one batch of them, was
\* uploaded without a failure.
ChunkCountWithoutFailuresWitness ==
    /\ ~failed
    /\ pc = "done"
    /\ fileSize % defaultSize = 0
    /\ fileSize >= maxParts * defaultSize
    /\ okPost = 1

\* A retry.Do is running, or the last one gave up.
RetryStarted == pc \in {"sign", "put", "complete"} \/ Exhausted

\* The retry.Do calls begun so far: those that ended with a success and the
\* one that is running or gave up.
OpsStarted == okSign + okPut + okPost + (IF RetryStarted THEN 1 ELSE 0)

\* Each retry.Do makes at most 3 invocations (attempt counts down from 3 and
\* an invocation needs attempt > 0), and there is at most one retry.Do per
\* batch, one per URL returned and one for finalize.
InvocationBound ==
    /\ attempt \in 0..3
    /\ okSign <= numberOfBatches
    /\ okPut <= urlsGot
    /\ okPost <= 1
    /\ OpsStarted <= numberOfBatches + urlsGot + 1
    /\ RetryStarted => (3 - attempt) + 3 * (OpsStarted - 1)
                          <= 3 * (numberOfBatches + urlsGot + 1)

\* C18: when every call returns, uploadFile terminates for every file size and
\* every pattern of failures, having made at most 3 invocations per signed-URL
\* request, per chunk transfer and for finalize: at most
\* 3 * (numberOfBatches + URLs returned + 1) invocations in all.
TerminatesWithinBound ==
    /\ <>(pc = "done")
    /\ []InvocationBound

\* uploadFile has returned from a job of several batches in which some call
\* had failed and every URL returned was used.
TerminatesWithinBoundWitness ==
    /\ pc = "done"
    /\ okPost = 1
    /\ numberOfBatches >= 2
    /\ failed
    /\ okPut = urlsGot

\* DownloadObject has returned after a response with status 200 from the
\* signed download URL.
Downloaded == dpc = "done" /\ dStatus = 200

\* C19 as stated: DownloadObject returns an error whenever the number of bytes
\* received differs from the declared size, and a nil error when the status
\* is 200 and the two sizes are equal.
DownloadSizeChecked ==
    Downloaded =>
        /\ received # declared => dErr # Nil
        /\ received = declared => dErr = Nil

\* C19: DownloadObject returns an error whenever the number of bytes received
\* differs from the declared size, and a nil error when the status is 200,
\* the body was read without an error and the two sizes are equal.
DownloadSizeCheckedWhenRead ==
    Downloaded =>
        /\ received # declared => dErr # Nil
        /\ (readOk /\ received = declared) => dErr = Nil
        /\ ~readOk => dErr = <<"read">>

\* A body of the declared size was read and returned without an error.
DownloadSizeCheckedWhenReadWitness ==
    /\ Downloaded
    /\ readOk
    /\ declared > 0
    /\ received = declared
    /\ dErr = Nil
====
